---------------------------- MODULE Spec2Model ----------------------------
(***************************************************************************)
(* Model of src/index.js: the deployment feedback action.                  *)
(*                                                                         *)
(* run() reads the action inputs, calls deploymentFeedback(), which looks  *)
(* up the image each environment currently runs (one concurrent branch per *)
(* environment, joined by Promise.all) and decides per environment whether *)
(* the release will replace it, renders a summary, comments on the pull    *)
(* requests of the commit and publishes the 'images' output.               *)
(*                                                                         *)
(* JavaScript strings are sequences of one-character strings, so that      *)
(* split, replace, the /^latest/ test and semver parsing are computed      *)
(* character by character.  The value undefined, wherever the code turns   *)
(* it into text, is the one-element sequence Undefined.                    *)
(***************************************************************************)
EXTENDS Integers, Sequences, FiniteSets, TLC

\* ------------------------------------------------------------------------
\* Bounds of the model
\* ------------------------------------------------------------------------

\* Largest major, minor or patch number of the enumerated versions.
MaxVer == 2

\* Largest number of pull requests the PR-discovery call returns.
MaxPulls == 2

MaxRuns == 2

\* ------------------------------------------------------------------------
\* Strings
\* ------------------------------------------------------------------------

Digits == <<"0", "1", "2", "3", "4", "5", "6", "7", "8", "9">>

DigitChars == {Digits[i] : i \in 1..10}

LetterChars ==
    {"a", "b", "c", "d", "e", "f", "g", "h", "i", "j", "k", "l", "m",
     "n", "o", "p", "q", "r", "s", "t", "u", "v", "w", "x", "y", "z",
     "A", "B", "C", "D", "E", "F", "G", "H", "I", "J", "K", "L", "M",
     "N", "O", "P", "Q", "R", "S", "T", "U", "V", "W", "X", "Y", "Z"}

\* The value a digit character stands for.
DigitValue(c) == (CHOOSE i \in 1..10 : Digits[i] = c) - 1

\* The text JavaScript makes of the value undefined ("undefined"), kept as
\* one token: no character test of the model accepts it.
Undefined == <<"undefined">>

\* Index of the first occurrence of character c in s, 0 when there is none.
IndexOf(s, c) ==
    IF \E i \in 1..Len(s) : s[i] = c
    THEN CHOOSE i \in 1..Len(s) : s[i] = c /\ \A j \in 1..(i - 1) : s[j] # c
    ELSE 0

\* String.prototype.split with a one-character separator.
RECURSIVE Split(_, _)
Split(s, c) ==
    LET i == IndexOf(s, c)
    IN  IF i = 0
        THEN <<s>>
        ELSE <<SubSeq(s, 1, i - 1)>> \o Split(SubSeq(s, i + 1, Len(s)), c)

\* The decimal text of a natural number.
RECURSIVE NumToStr(_)
NumToStr(n) ==
    IF n < 10 THEN <<Digits[n + 1]>>
    ELSE NumToStr(n \div 10) \o <<Digits[(n % 10) + 1]>>

\* The number a sequence of digit characters writes.
RECURSIVE StrToNum(_)
StrToNum(s) ==
    IF s = <<>> THEN 0
    ELSE 10 * StrToNum(SubSeq(s, 1, Len(s) - 1)) + DigitValue(s[Len(s)])

\* s starts with p.
StartsWith(s, p) == Len(s) >= Len(p) /\ SubSeq(s, 1, Len(p)) = p

\* s contains p as a substring.
Contains(s, p) ==
    \E i \in 1..(Len(s) - Len(p) + 1) : SubSeq(s, i, i + Len(p) - 1) = p


\* The characters of version identifiers in code-unit order, the order
\* JavaScript compares strings by.
CodeOrder ==
    <<"-", "0", "1", "2", "3", "4", "5", "6", "7", "8", "9",
      "A", "B", "C", "D", "E", "F", "G", "H", "I", "J", "K", "L", "M",
      "N", "O", "P", "Q", "R", "S", "T", "U", "V", "W", "X", "Y", "Z",
      "a", "b", "c", "d", "e", "f", "g", "h", "i", "j", "k", "l", "m",
      "n", "o", "p", "q", "r", "s", "t", "u", "v", "w", "x", "y", "z">>

CharCode(c) == CHOOSE i \in 1..Len(CodeOrder) : CodeOrder[i] = c

\* a < b as JavaScript strings (both over the identifier characters).
RECURSIVE StrLess(_, _)
StrLess(a, b) ==
    IF b = <<>> THEN FALSE
    ELSE IF a = <<>> THEN TRUE
    ELSE IF a[1] # b[1] THEN CharCode(a[1]) < CharCode(b[1])
    ELSE StrLess(Tail(a), Tail(b))

\* ------------------------------------------------------------------------
\* The semver package, as far as line 103 (semver.parse) and line 110
\* (semver.satisfies) use it
\* ------------------------------------------------------------------------

IdentifierChars == DigitChars \cup LetterChars \cup {"-"}

AllDigits(s) == \A i \in 1..Len(s) : s[i] \in DigitChars

\* 0|[1-9]\d*
IsNumericIdentifier(s) ==
    /\ Len(s) >= 1
    /\ AllDigits(s)
    /\ (Len(s) = 1 \/ s[1] # "0")

\* 0|[1-9]\d*|\d*[a-zA-Z-][a-zA-Z0-9-]*
IsPrereleaseIdentifier(s) ==
    /\ Len(s) >= 1
    /\ \A i \in 1..Len(s) : s[i] \in IdentifierChars
    /\ (AllDigits(s) => IsNumericIdentifier(s))

\* [a-zA-Z0-9-]+
IsBuildIdentifier(s) ==
    /\ Len(s) >= 1
    /\ \A i \in 1..Len(s) : s[i] \in IdentifierChars

\* The parts of a version string that the strict version pattern
\* ^v?MAIN(-PRERELEASE)?(\+BUILD)?$ would capture: MAIN holds neither '-'
\* nor '+' and PRERELEASE holds no '+', so the build starts at the first
\* '+' and the prerelease at the first '-' before it.
VersionParts(s) ==
    LET body == IF Len(s) >= 1 /\ s[1] = "v" THEN Tail(s) ELSE s
        plus == IndexOf(body, "+")
        head == IF plus = 0 THEN body ELSE SubSeq(body, 1, plus - 1)
        dash == IndexOf(head, "-")
    IN  [main       |-> Split(IF dash = 0 THEN head
                              ELSE SubSeq(head, 1, dash - 1), "."),
         prerelease |-> IF dash = 0 THEN <<>>
                        ELSE Split(SubSeq(head, dash + 1, Len(head)), "."),
         build      |-> IF plus = 0 THEN <<>>
                        ELSE Split(SubSeq(body, plus + 1, Len(body)), ".")]

\* semver.parse(s) is not null.
IsSemver(s) ==
    LET p == VersionParts(s)
    IN  /\ Len(p.main) = 3
        /\ \A i \in 1..3 : IsNumericIdentifier(p.main[i])
        /\ \A i \in 1..Len(p.prerelease) : IsPrereleaseIdentifier(p.prerelease[i])
        /\ \A i \in 1..Len(p.build) : IsBuildIdentifier(p.build[i])

\* The SemVer object of a string that parses.
SemVer(s) ==
    LET p == VersionParts(s)
    IN  [major      |-> StrToNum(p.main[1]),
         minor      |-> StrToNum(p.main[2]),
         patch      |-> StrToNum(p.main[3]),
         prerelease |-> p.prerelease]

\* compareIdentifiers: numeric identifiers by value and below all others,
\* the others as strings.
CompareIdentifiers(a, b) ==
    LET anum == AllDigits(a)
        bnum == AllDigits(b)
    IN  IF a = b THEN 0
        ELSE IF anum /\ bnum
             THEN (IF StrToNum(a) < StrToNum(b) THEN -1
                   ELSE IF StrToNum(a) > StrToNum(b) THEN 1 ELSE 0)
        ELSE IF anum THEN -1
        ELSE IF bnum THEN 1
        ELSE IF StrLess(a, b) THEN -1 ELSE 1

\* SemVer.comparePre on the identifier lists from position i on.
RECURSIVE ComparePreFrom(_, _, _)
ComparePreFrom(a, b, i) ==
    IF i > Len(a) /\ i > Len(b) THEN 0
    ELSE IF i > Len(b) THEN 1
    ELSE IF i > Len(a) THEN -1
    ELSE IF CompareIdentifiers(a[i], b[i]) # 0
         THEN CompareIdentifiers(a[i], b[i])
    ELSE ComparePreFrom(a, b, i + 1)

\* SemVer.comparePre: a version without prerelease is above one with.
ComparePre(x, y) ==
    IF x.prerelease # <<>> /\ y.prerelease = <<>> THEN -1
    ELSE IF x.prerelease = <<>> /\ y.prerelease # <<>> THEN 1
    ELSE IF x.prerelease = <<>> /\ y.prerelease = <<>> THEN 0
    ELSE ComparePreFrom(x.prerelease, y.prerelease, 1)

Sign(n) == IF n < 0 THEN -1 ELSE IF n > 0 THEN 1 ELSE 0

\* SemVer.compare: major, minor, patch, then the prerelease; build metadata
\* plays no part.
SemverCompare(x, y) ==
    IF x.major # y.major THEN Sign(x.major - y.major)
    ELSE IF x.minor # y.minor THEN Sign(x.minor - y.minor)
    ELSE IF x.patch # y.patch THEN Sign(x.patch - y.patch)
    ELSE ComparePre(x, y)

\* The operator a range string starts with, <<>> when it is none of the
\* three the policy table holds.
RangeOperator(range) ==
    IF StartsWith(range, <<">", "=">>) THEN <<">", "=">>
    ELSE IF StartsWith(range, <<"^">>) THEN <<"^">>
    ELSE IF StartsWith(range, <<"~">>) THEN <<"~">>
    ELSE <<>>

\* The version a range string holds after its operator.
RangeVersion(range) ==
    SubSeq(range, Len(RangeOperator(range)) + 1, Len(range))

\* new Range(range) does not throw.  The code builds a range only from a
\* comparator of the policy table and a tag, and tests it only after the tag
\* parsed as a full version, so partial versions and x-ranges are left out.
IsRange(range) ==
    RangeOperator(range) # <<>> /\ IsSemver(RangeVersion(range))

\* The upper end the package gives a caret or tilde range: prerelease 0 of
\* the next version.
UpperBound(major, minor, patch) ==
    [op |-> "<",
     semver |-> [major |-> major, minor |-> minor, patch |-> patch,
                 prerelease |-> << <<"0">> >>]]

\* replaceCaret: ^M.m.p allows changes that leave the left-most non-zero
\* number alone.
CaretComparators(v) ==
    <<[op |-> ">=", semver |-> v],
      IF v.major # 0 THEN UpperBound(v.major + 1, 0, 0)
      ELSE IF v.minor # 0 THEN UpperBound(0, v.minor + 1, 0)
      ELSE UpperBound(0, 0, v.patch + 1)>>

\* replaceTilde: ~M.m.p allows patch-level changes.
TildeComparators(v) ==
    <<[op |-> ">=", semver |-> v], UpperBound(v.major, v.minor + 1, 0)>>

\* The comparator set of a range: >=, ^ and ~ desugared to plain comparators.
RangeSet(range) ==
    LET v == SemVer(RangeVersion(range))
    IN  IF RangeOperator(range) = <<"^">> THEN CaretComparators(v)
        ELSE IF RangeOperator(range) = <<"~">> THEN TildeComparators(v)
        ELSE <<[op |-> ">=", semver |-> v]>>

\* Comparator.test
ComparatorTest(c, version) ==
    IF c.op = ">=" THEN SemverCompare(version, c.semver) >= 0
    ELSE SemverCompare(version, c.semver) < 0

\* testSet: every comparator holds, and a version with a prerelease passes
\* only when a comparator of the same major.minor.patch has one too.
TestSet(set, version) ==
    /\ \A i \in 1..Len(set) : ComparatorTest(set[i], version)
    /\ version.prerelease # <<>> =>
         \E i \in 1..Len(set) :
            /\ set[i].semver.prerelease # <<>>
            /\ set[i].semver.major = version.major
            /\ set[i].semver.minor = version.minor
            /\ set[i].semver.patch = version.patch

\* semver.satisfies(version, range): false when either does not parse.
Satisfies(version, range) ==
    /\ IsRange(range)
    /\ IsSemver(version)
    /\ TestSet(RangeSet(range), SemVer(version))

\* ------------------------------------------------------------------------
\* The policy table and the gate (deploymentFeedback, lines 101-121)
\* ------------------------------------------------------------------------

\* Object.keys(ENV_VERSION_COMPARATOR), in insertion order.
EnvKeys == <<"dev", "sandbox", "production">>

Envs == {EnvKeys[i] : i \in 1..Len(EnvKeys)}

\* The position of an environment in the policy table.
EnvIndex(env) == CHOOSE i \in 1..Len(EnvKeys) : EnvKeys[i] = env

\* The policy table with sandbox given the tilde comparator.
ComparatorSandboxTilde(env) ==
    IF env = "dev" THEN <<">", "=">> ELSE <<"~">>

\* The policy table with production given the caret comparator.
ComparatorProductionCaret(env) ==
    IF env = "dev" THEN <<">", "=">> ELSE <<"^">>

ENV_VERSION_COMPARATOR(env) ==
    IF env = "dev" THEN <<">", "=">>
    ELSE IF env = "sandbox" THEN <<"^">>
    ELSE <<"~">>

\* The release version compared as it is, without the rewriting.
NormalizeNothing(releaseVersion) == releaseVersion

\* replace with every '-' rewritten, as replaceAll would.
NormalizeAll(releaseVersion) ==
    [i \in 1..Len(releaseVersion) |->
        IF releaseVersion[i] = "-" THEN "+" ELSE releaseVersion[i]]

\* releaseVersion.replace("-", "+"): a string pattern replaces the first
\* occurrence only.
Normalize(releaseVersion) ==
    LET i == IndexOf(releaseVersion, "-")
    IN  IF i = 0 THEN releaseVersion
        ELSE [releaseVersion EXCEPT ![i] = "+"]

Latest == <<"l", "a", "t", "e", "s", "t">>

\* The test for the literal tag "latest" alone.
IsLatestExactly(currentImageTag) == currentImageTag = Latest

\* The test without its anchor: "latest" anywhere in the tag.
IsLatestAnywhere(currentImageTag) == Contains(currentImageTag, Latest)

\* /^latest/.test(currentImageTag)
IsLatest(currentImageTag) == StartsWith(currentImageTag, Latest)

\* A gate whose false range check ends the decision: the test for "latest"
\* is never reached.
WillBeReplacedRangeOnly(env, currentImageTag, releaseVersion) ==
    /\ IsSemver(currentImageTag)
    /\ Satisfies(Normalize(releaseVersion),
                 ENV_VERSION_COMPARATOR(env) \o currentImageTag)

\* Lines 101-114: the decision for one environment.
WillBeReplaced(env, currentImageTag, releaseVersion) ==
    LET versionComparator == ENV_VERSION_COMPARATOR(env)
        isCurrentImageSemver == IsSemver(currentImageTag)
        semverRange == versionComparator \o currentImageTag
        tagAsBuild == Normalize(releaseVersion)
    IN  IF isCurrentImageSemver /\ Satisfies(tagAsBuild, semverRange)
        THEN TRUE
        ELSE IF IsLatest(currentImageTag) THEN TRUE
        ELSE FALSE

\* Lines 116-121: the value a branch whose lookup returned resolves to.
GateResult(env, currentImageTag, releaseVersion) ==
    [env            |-> env,
     currentImageTag |-> currentImageTag,
     releaseVersion |-> releaseVersion,
     willBeReplaced |-> WillBeReplaced(env, currentImageTag, releaseVersion)]

\* ------------------------------------------------------------------------
\* getCurrentImage (lines 18-50)
\* ------------------------------------------------------------------------

\* new RegExp(repoName).test(image): a repository name of letters and digits
\* matches wherever it occurs; new RegExp(undefined) matches every string.
RepoMatches(repoName, image) ==
    repoName = Undefined \/ Contains(image, repoName)

\* Line 43: cds.find(...), the first container definition whose image
\* matches; <<>> stands for find's undefined.
RECURSIVE FindContainer(_, _)
FindContainer(cds, repoName) ==
    IF cds = <<>> THEN <<>>
    ELSE IF RepoMatches(repoName, Head(cds)) THEN <<Head(cds)>>
    ELSE FindContainer(Tail(cds), repoName)

\* The text after the first ':' to the end of the image reference.
RemainderAfterFirstColon(currentImage) ==
    SubSeq(currentImage, IndexOf(currentImage, ":") + 1, Len(currentImage))

\* Line 48: currentImage.split(":")[1], undefined when the image reference
\* holds no ':'.
ImageTag(currentImage) ==
    LET parts == Split(currentImage, ":")
    IN  IF Len(parts) >= 2 THEN parts[2] ELSE Undefined

\* Lines 46-49: the object getCurrentImage returns.
CurrentImage(currentImage) ==
    [image |-> currentImage, tag |-> ImageTag(currentImage)]

\* ------------------------------------------------------------------------
\* State
\* ------------------------------------------------------------------------

VARIABLES
    releaseVersion, \* core.getInput("releaseVersion")          (line 173)
    repository,     \* core.getInput("repository")              (line 174)
    token,          \* core.getInput("token")                   (line 187)
    creds,          \* the six ...EcsKey / ...EcsSecret inputs  (lines 180-185)
    pc,             \* where run() stands
    branch,         \* per environment, where its async callback stands
    result,         \* per environment, the value its callback resolved to
    errorLogged,    \* per environment, whether line 123 logged a lookup error
    settled,        \* the environments in the order their callbacks settled
    images,         \* the array run() received from deploymentFeedback
    body,           \* the comment text of lines 211-215
    relatedPulls,   \* the response of PR discovery (line 156)
    prs,            \* the pull requests findPullRequest returned
    comments,       \* per pull request of prs, where its createComment stands
    failed,         \* the message given to core.setFailed, or NotCalled
    output,         \* the value given to core.setOutput("images"), or NotCalled
    gate,           \* the gate applied to one drawn input (GateSpec only)
    earlierRun      \* one gate result of the run before this one, kept for
                    \* comparison only: the program holds nothing of it
                    \* (TwinSpec only)

vars ==
    <<releaseVersion, repository, token, creds, pc, branch, result,
      errorLogged, settled, images, body, relatedPulls, prs, comments,
      failed, output, gate, earlierRun>>

inputVars == <<releaseVersion, repository, token, creds>>

\* A call that has not been made.
NotCalled == [called |-> FALSE]

\* The value undefined where the code holds it as a value.
UndefinedValue == [undefined |-> TRUE]

\* ------------------------------------------------------------------------
\* Input and response domains
\* ------------------------------------------------------------------------

Dot == <<".">>

\* The text "major.minor.patch".
Version(major, minor, patch) ==
    NumToStr(major) \o Dot \o NumToStr(minor) \o Dot \o NumToStr(patch)

\* Every version with numbers up to MaxVer, one with a two-digit number, and
\* the versions of the scenarios of the specification.
CoreVersions ==
    {Version(a, b, c) : a \in 0..MaxVer, b \in 0..MaxVer, c \in 0..MaxVer}
        \cup {Version(10, 0, 0), Version(2, 4, 1), Version(2, 4, 2),
              Version(2, 5, 0), Version(3, 0, 0), Version(1, 9, 9),
              Version(1, 2, 3), Version(2, 4, 0)}

\* Tags an environment may run: full versions, versions with a prerelease,
\* and tags that are no version.
GateTags ==
    CoreVersions
        \cup {v \o <<"-", "r", "c", "1">> : v \in CoreVersions}
        \cup {Latest,
              Latest \o <<"-", "f", "o", "o">>,
              <<"x">> \o Latest,
              <<"a", "b", "c", "1", "2", "3">>,
              <<"1", ".", "2">>}

\* The repository behind a registry host with a port.
PortedRepository == <<"h", ":", "5", "/", "r">>

\* Image references the lookup may return: a repository with each tag, one
\* without any tag, and two behind a registry host with a port.
GateImages ==
    {<<"r", ":">> \o t : t \in GateTags}
        \cup {<<"r">>,
              PortedRepository \o <<":">> \o Version(1, 0, 0),
              PortedRepository \o <<":">> \o Latest}

\* Candidate release versions: full versions, with one prerelease suffix,
\* with a suffix holding a second '-', and strings that are no version.
GateReleases ==
    CoreVersions
        \cup {v \o <<"-", "r", "c", "1">> : v \in CoreVersions}
        \cup {v \o <<"-", "r", "c", "0", "-", "x">> : v \in CoreVersions}
        \cup {<<>>, <<"a", "b", "c">>, <<"m", "y", "-", "t", "a", "g">>,
              Version(1, 2, 3) \o <<"+", "b", "-", "x">>}

\* Release versions of the runs.
RunReleases ==
    {Version(1, 1, 0), Version(1, 0, 0) \o <<"-", "r", "c", "1">>}

\* Repository identifiers of the runs: "o/r" and, without a slash, "r".
RunRepositories == {<<"o", "/", "r">>, <<"r">>}

\* Tokens of the runs: supplied or not.
RunTokens == {<<"t">>, <<>>}

\* Credentials of one environment: supplied, or not supplied (getInput
\* gives the empty string for an input that is not set).
RunCredentials ==
    {[key |-> <<"k">>, secret |-> <<"s">>],
     [key |-> <<>>, secret |-> <<>>]}

\* The credentials of the runs: every environment supplied, dev left out,
\* sandbox and production left out, none supplied.
RunCredentialTables ==
    {table \in [Envs -> RunCredentials] :
        {env \in Envs : table[env].key = <<>>}
            \in {{}, {"dev"}, {"sandbox", "production"}, Envs}}

\* Container definitions a task definition may hold.
RunContainers ==
    {<< <<"r", ":">> \o Version(1, 0, 0) >>,
     << <<"x", ":", "9">>, <<"r", ":">> \o Latest >>,
     << <<"r">> >>,
     << <<"x", ":", "9">> >>}

\* A pull request as listPullRequestsAssociatedWithCommit reports it.
PullRequest(number, state, ref) ==
    [number |-> number, state |-> state, base |-> [ref |-> ref]]

\* The responses of PR discovery: up to MaxPulls pull requests, numbered by
\* position, each open or closed, each against main or another branch.
PullLists ==
    UNION {[1..n -> {"open", "closed"} \X {"main", "develop"}] : n \in 0..MaxPulls}

PullsOf(choice) ==
    [i \in 1..Len(choice) |-> PullRequest(i, choice[i][1], choice[i][2])]

\* ------------------------------------------------------------------------
\* deploymentFeedback (lines 52-129)
\* ------------------------------------------------------------------------

\* Lines 175: const [owner, repoName] = repository.split("/")
Owner == Split(repository, "/")[1]

RepoName ==
    IF Len(Split(repository, "/")) >= 2 THEN Split(repository, "/")[2]
    ELSE Undefined

\* Lines 67-80: the ECS table, one object per environment.
ECS(env) == [key |-> creds[env].key, secret |-> creds[env].secret]

\* Whether a string is truthy.
Truthy(s) == s # <<>>

\* Lines 83-84: !!ECS[env].  ECS[env] is an object, and an object is truthy
\* whatever its fields hold.
ObjectTruthy(object) == TRUE

HasCredentials(env) == ObjectTruthy(ECS(env))

\* Line 82: the keys of the policy table that pass the filter, in table
\* order.
ActiveEnvs == SelectSeq(EnvKeys, HasCredentials)

IsActive(env) == \E i \in 1..Len(ActiveEnvs) : ActiveEnvs[i] = env

\* A branch whose lookup error leaves the callback and rejects its promise.
LookupErrorRethrown == "rejected"

\* Lines 122-124: the catch logs the error and falls through, so the
\* callback resolves, to undefined.
LookupErrorOutcome == "fulfilled"

\* The array with the values in the order the callbacks settled.
ImagesInSettleOrder(envs) ==
    [i \in 1..Len(envs) |-> result[settled[i]]]

\* Lines 87-126: Promise.all gives the values of the callbacks in the order
\* of envs, whatever order they settled in.
PromiseAllValues(envs) ==
    [i \in 1..Len(envs) |-> result[envs[i]]]

\* A callback settles: it resolves to value, or ends as LookupErrorOutcome
\* says after a lookup error.
Settle(env, state, value, logged) ==
    /\ branch' = [branch EXCEPT ![env] = state]
    /\ result' = [result EXCEPT ![env] = value]
    /\ errorLogged' = [errorLogged EXCEPT ![env] = logged]
    /\ settled' = Append(settled, env)

\* A callback that after a lookup error returns the object of lines 116-121
\* with a flag that was initialised to true.
LookupErrorValuePromotable(env) ==
    [env            |-> env,
     currentImageTag |-> Undefined,
     releaseVersion |-> releaseVersion,
     willBeReplaced |-> TRUE]

\* Lines 122-125: after the catch the callback ends without a return, so it
\* resolves to undefined.
LookupErrorValue(env) == UndefinedValue

\* The lookup of env threw: lines 122-124.
LookupThrew(env) ==
    Settle(env, LookupErrorOutcome, LookupErrorValue(env), TRUE)

\* A callback whose willBeReplaced flag is one variable declared outside the
\* callbacks: a flag set by a branch that settled earlier stays set.
LookupReturnedSharedFlag(env, currentImage) ==
    LET own == GateResult(env, CurrentImage(currentImage).tag, releaseVersion)
        raised == \E other \in Envs :
                     /\ branch[other] = "fulfilled"
                     /\ result[other] # UndefinedValue
                     /\ result[other].willBeReplaced
    IN  Settle(env, "fulfilled",
               [own EXCEPT !.willBeReplaced = own.willBeReplaced \/ raised],
               FALSE)

\* The lookup of env returned currentImage: lines 101-121.
LookupReturned(env, currentImage) ==
    Settle(env, "fulfilled",
           GateResult(env, CurrentImage(currentImage).tag, releaseVersion),
           FALSE)

\* The environments whose callback returned the object of lines 116-121.
ReturnedEnvs ==
    {env \in Envs : branch[env] = "fulfilled" /\ ~errorLogged[env]}

\* ------------------------------------------------------------------------
\* run (lines 168-228)
\* ------------------------------------------------------------------------

TypeErrorMessage == "Cannot read properties of undefined (reading 'willBeReplaced')"

TokenErrorMessage == "Parameter token or opts.auth is required"

LookupErrorMessage == "lookup error"

RequestErrorMessage == "request error"

SetFailed(message) == [called |-> TRUE, message |-> message]

NoBody == [rendered |-> FALSE]

\* Lines 203-209: one summary line per element of images; the glyph is the
\* check mark exactly when willBeReplaced.
SummaryLine(i) ==
    [updated |-> i.willBeReplaced, env |-> i.env, running |-> i.currentImageTag]

\* Lines 211-215, without the time stamp.
Body(imgs) ==
    [rendered |-> TRUE,
     releaseVersion |-> releaseVersion,
     summary |-> [n \in 1..Len(imgs) |-> SummaryLine(imgs[n])]]

\* JSON.stringify of one element of images: a key whose value is undefined
\* is left out.
JsonObject(i) ==
    << <<"env", i.env>> >>
        \o (IF i.currentImageTag = Undefined THEN <<>>
            ELSE << <<"currentImageTag", i.currentImageTag>> >>)
        \o << <<"releaseVersion", i.releaseVersion>>,
              <<"willBeReplaced", i.willBeReplaced>> >>

\* Line 224: JSON.stringify(images)
JsonStringify(imgs) == [n \in 1..Len(imgs) |-> JsonObject(imgs[n])]

\* Lines 157-158: the open pull requests against main, in response order.
IsOpen(pr) == pr.state = "open"

\* A filter that lets every base branch through.
IsAnyBase(pr) == pr.base.ref \in {"main", "develop"}

IsMain(pr) == pr.base.ref = "main"

MainPrs(pulls) == SelectSeq(SelectSeq(pulls, IsOpen), IsMain)

\* Lines 170-190 and 82-99: run reads its inputs and calls
\* deploymentFeedback, which starts one callback per active environment;
\* each runs up to its first await, the DescribeServices request.
Start ==
    /\ pc = "start"
    /\ pc' = "awaitImages"
    /\ branch' = [env \in Envs |->
                    IF IsActive(env) THEN "describeServices" ELSE "idle"]
    /\ UNCHANGED <<inputVars, earlierRun, result, errorLogged, settled, images, body,
                   relatedPulls, prs, comments, failed, output, gate>>

\* Lines 32-39: the DescribeServices request of env returns; with a service
\* in the response the callback goes on to the DescribeTaskDefinition
\* request, without one results.services[0].taskDefinition throws.
DescribeServicesReturns(env) ==
    /\ branch[env] = "describeServices"
    /\ \E found \in BOOLEAN :
          IF found
          THEN /\ branch' = [branch EXCEPT ![env] = "describeTask"]
               /\ UNCHANGED <<result, errorLogged, settled>>
          ELSE LookupThrew(env)
    /\ UNCHANGED <<inputVars, earlierRun, pc, images, body, relatedPulls, prs, comments, failed,
                   output, gate>>

\* Line 32: the DescribeServices request of env fails.
DescribeServicesThrows(env) ==
    /\ branch[env] = "describeServices"
    /\ LookupThrew(env)
    /\ UNCHANGED <<inputVars, earlierRun, pc, images, body, relatedPulls, prs, comments, failed,
                   output, gate>>

\* Lines 39-49 and 101-121: the DescribeTaskDefinition request of env
\* returns its container definitions; without a matching container
\* cdx.image throws, with one the gate decides and the callback resolves.
DescribeTaskReturns(env) ==
    /\ branch[env] = "describeTask"
    /\ \E cds \in RunContainers :
          LET cdx == FindContainer(cds, RepoName)
          IN  IF cdx = <<>>
              THEN LookupThrew(env)
              ELSE LookupReturned(env, cdx[1])
    /\ UNCHANGED <<inputVars, earlierRun, pc, images, body, relatedPulls, prs, comments, failed,
                   output, gate>>

\* Line 39: the DescribeTaskDefinition request of env fails.
DescribeTaskThrows(env) ==
    /\ branch[env] = "describeTask"
    /\ LookupThrew(env)
    /\ UNCHANGED <<inputVars, earlierRun, pc, images, body, relatedPulls, prs, comments, failed,
                   output, gate>>

\* Promise.all has settled: a callback rejected, or all have resolved.
SomeRejected == \E env \in Envs : branch[env] = "rejected"

\* A combinator that resolves with the first callback that does.
AnyFulfilled == \E env \in Envs : branch[env] = "fulfilled"

AllFulfilled == \A env \in Envs : IsActive(env) => branch[env] = "fulfilled"

\* Lines 190-219: the await of deploymentFeedback ends.  A rejection goes to
\* the catch of run.  Otherwise run holds the array, renders it, which throws
\* on an undefined element, and calls findPullRequest, where getOctokit
\* throws on an empty token.
AwaitImages ==
    /\ pc = "awaitImages"
    /\ SomeRejected \/ AllFulfilled
    /\ IF SomeRejected
       THEN /\ pc' = "failed"
            /\ failed' = SetFailed(LookupErrorMessage)
            /\ UNCHANGED <<images, body>>
       ELSE LET imgs == PromiseAllValues(ActiveEnvs)
            IN  /\ images' = imgs
                /\ IF \E n \in 1..Len(imgs) : imgs[n] = UndefinedValue
                   THEN /\ pc' = "failed"
                        /\ failed' = SetFailed(TypeErrorMessage)
                        /\ UNCHANGED body
                   ELSE /\ body' = Body(imgs)
                        /\ IF Truthy(token)
                           THEN /\ pc' = "awaitPrs"
                                /\ UNCHANGED failed
                           ELSE /\ pc' = "failed"
                                /\ failed' = SetFailed(TokenErrorMessage)
    /\ UNCHANGED <<inputVars, earlierRun, branch, result, errorLogged, settled, relatedPulls, prs,
                   comments, output, gate>>

\* Lines 150-162 and 219-221: PR discovery returns; findPullRequest filters
\* the response and run starts one createComment per pull request left.
FindPullRequestReturns ==
    /\ pc = "awaitPrs"
    /\ \E choice \in PullLists :
          /\ relatedPulls' = PullsOf(choice)
          /\ prs' = MainPrs(relatedPulls')
          /\ comments' = [n \in 1..Len(prs') |-> "pending"]
    /\ pc' = "awaitComments"
    /\ UNCHANGED <<inputVars, earlierRun, branch, result, errorLogged, settled, images,
                   body, failed, output, gate>>

\* Lines 150-155 and 225-227: PR discovery fails; the error reaches the
\* catch of run.
FindPullRequestThrows ==
    /\ pc = "awaitPrs"
    /\ pc' = "failed"
    /\ failed' = SetFailed(RequestErrorMessage)
    /\ UNCHANGED <<inputVars, earlierRun, branch, result, errorLogged, settled, images,
                   body, relatedPulls, prs, comments, output, gate>>

\* Lines 135-141: the comment on pull request n of prs is created.
CommentCreated(n) ==
    /\ pc = "awaitComments"
    /\ n \in 1..Len(prs)
    /\ comments[n] = "pending"
    /\ comments' = [comments EXCEPT ![n] = "created"]
    /\ UNCHANGED <<inputVars, earlierRun, pc, branch, result, errorLogged, settled,
                   images, body, relatedPulls, prs, failed, output, gate>>

\* A createComment whose request error leaves it and rejects its promise.
CommentErrorRethrown == "rejected"

\* Lines 142-144: the catch of createComment logs the error, and
\* createComment resolves.
CommentErrorOutcome == "failed"

\* Lines 142-144: creating the comment on pull request n fails.
CommentFails(n) ==
    /\ pc = "awaitComments"
    /\ n \in 1..Len(prs)
    /\ comments[n] = "pending"
    /\ comments' = [comments EXCEPT ![n] = CommentErrorOutcome]
    /\ UNCHANGED <<inputVars, earlierRun, pc, branch, result, errorLogged, settled,
                   images, body, relatedPulls, prs, failed, output, gate>>

\* The Promise.all of line 220 has settled: a createComment rejected, or all
\* have resolved.
SomeCommentRejected == \E n \in 1..Len(comments) : comments[n] = "rejected"

AllCommentsSettled == \A n \in 1..Len(comments) : comments[n] # "pending"

\* Line 224 reached although a createComment is still pending, as without
\* the await of line 220.
SetOutputWithoutAwait ==
    /\ pc = "awaitComments"
    /\ output' = [called |-> TRUE, value |-> JsonStringify(images)]
    /\ pc' = "done"
    /\ UNCHANGED <<inputVars, earlierRun, branch, result, errorLogged, settled, images,
                   body, relatedPulls, prs, comments, failed, gate>>

\* Lines 220-227: the await of the createComment calls ends; run sets the
\* output, or a rejection goes to the catch of run.
SetOutput ==
    /\ pc = "awaitComments"
    /\ SomeCommentRejected \/ AllCommentsSettled
    /\ IF SomeCommentRejected
       THEN /\ pc' = "failed"
            /\ failed' = SetFailed(RequestErrorMessage)
            /\ UNCHANGED output
       ELSE /\ pc' = "done"
            /\ output' = [called |-> TRUE, value |-> JsonStringify(images)]
            /\ UNCHANGED failed
    /\ UNCHANGED <<inputVars, earlierRun, branch, result, errorLogged, settled, images,
                   body, relatedPulls, prs, comments, gate>>

GateOff == [phase |-> "off"]

\* No run has ended and no gate result is kept.
NoEarlierRun == [runs |-> 0, kept |-> FALSE]

Init ==
    /\ releaseVersion \in RunReleases
    /\ repository \in RunRepositories
    /\ token \in RunTokens
    /\ creds \in RunCredentialTables
    /\ pc = "start"
    /\ branch = [env \in Envs |-> "idle"]
    /\ result = [env \in Envs |-> UndefinedValue]
    /\ errorLogged = [env \in Envs |-> FALSE]
    /\ settled = <<>>
    /\ images = <<>>
    /\ body = NoBody
    /\ relatedPulls = <<>>
    /\ prs = <<>>
    /\ comments = <<>>
    /\ failed = NotCalled
    /\ output = NotCalled
    /\ gate = GateOff
    /\ earlierRun = NoEarlierRun

Next ==
    \/ Start
    \/ \E env \in Envs : DescribeServicesReturns(env)
    \/ \E env \in Envs : DescribeServicesThrows(env)
    \/ \E env \in Envs : DescribeTaskReturns(env)
    \/ \E env \in Envs : DescribeTaskThrows(env)
    \/ AwaitImages
    \/ FindPullRequestReturns
    \/ FindPullRequestThrows
    \/ \E n \in 1..MaxPulls : CommentCreated(n)
    \/ \E n \in 1..MaxPulls : CommentFails(n)
    \/ SetOutput

Spec == Init /\ [][Next]_vars

\* The runs with a repository "o/r" and every credential supplied.
LiveInit ==
    /\ Init
    /\ repository = <<"o", "/", "r">>
    /\ \A env \in Envs : Truthy(creds[env].key) /\ Truthy(creds[env].secret)

\* An image lookup request (lines 32 and 39) gets its response.
LookupResponse ==
    \E env \in Envs :
        \/ DescribeServicesThrows(env)
        \/ DescribeServicesReturns(env)
        \/ DescribeTaskThrows(env)
        \/ DescribeTaskReturns(env)

\* The PR discovery request (line 151) gets its response.
DiscoveryResponse == FindPullRequestReturns \/ FindPullRequestThrows

\* A comment request (line 136) gets its response.
CommentResponse == \E n \in 1..MaxPulls : CommentCreated(n) \/ CommentFails(n)

\* The event loop runs the synchronous part of run (line 190) and resumes
\* an await that is ready (lines 190-219 and 220-224).
Resume == Start \/ AwaitImages \/ SetOutput

\* Every external call issued eventually returns or fails, and a
\* continuation that can resume is resumed.  A pending request stays pending
\* until its response, so fairness per kind of request gives it to each one.
Fairness ==
    /\ WF_vars(LookupResponse)
    /\ WF_vars(DiscoveryResponse)
    /\ WF_vars(CommentResponse)
    /\ WF_vars(Resume)

LiveSpec == LiveInit /\ [][Next]_vars /\ Fairness

\* Line 230, once more: the action runs again with the same inputs, whatever
\* the run that ended did.  Every variable of lines 52-228 is a local of the
\* new invocation, so the run starts from the state Init gives.  earlierRun
\* counts the runs that ended and keeps one gate result of one of them, with
\* whether a lookup of that run threw: a result of the run that just ended,
\* or the one kept so far (none, when no lookup has returned yet).
StartNextRun ==
    /\ pc \in {"done", "failed"}
    /\ earlierRun.runs + 1 < MaxRuns
    /\ \/ \E env \in ReturnedEnvs :
             earlierRun' = [runs |-> earlierRun.runs + 1,
                            kept |-> TRUE,
                            env |-> env,
                            currentImageTag |-> result[env].currentImageTag,
                            releaseVersion |-> releaseVersion,
                            willBeReplaced |-> result[env].willBeReplaced,
                            lookupThrew |-> \E e \in Envs : errorLogged[e]]
       \/ earlierRun' = [earlierRun EXCEPT !.runs = earlierRun.runs + 1]
    /\ pc' = "start"
    /\ branch' = [env \in Envs |-> "idle"]
    /\ result' = [env \in Envs |-> UndefinedValue]
    /\ errorLogged' = [env \in Envs |-> FALSE]
    /\ settled' = <<>>
    /\ images' = <<>>
    /\ body' = NoBody
    /\ relatedPulls' = <<>>
    /\ prs' = <<>>
    /\ comments' = <<>>
    /\ failed' = NotCalled
    /\ output' = NotCalled
    /\ UNCHANGED <<inputVars, gate>>

TwinNext == Next \/ StartNextRun

\* The runs of LiveInit for the release 1.1.0.
TwinInit == LiveInit /\ releaseVersion = Version(1, 1, 0)

\* Up to MaxRuns runs of the action, one after the other.
TwinSpec == TwinInit /\ [][TwinNext]_vars

\* ------------------------------------------------------------------------
\* The gate on its own: lines 48 and 101-121 applied to one drawn input
\* ------------------------------------------------------------------------

\* The branch of one environment from the image its lookup returned to the
\* value it resolves to.
GateEvaluate ==
    /\ gate.phase = "input"
    /\ gate' = [gate EXCEPT
                  !.phase = "evaluated",
                  !.currentImageTag = CurrentImage(gate.image).tag,
                  !.tagAsBuild = Normalize(gate.releaseVersion),
                  !.result = GateResult(gate.env, CurrentImage(gate.image).tag,
                                        gate.releaseVersion)]
    /\ UNCHANGED <<inputVars, earlierRun, pc, branch, result, errorLogged, settled,
                   images, body, relatedPulls, prs, comments, failed, output>>

GateInit ==
    /\ releaseVersion = <<>>
    /\ repository = <<>>
    /\ token = <<>>
    /\ creds = [env \in Envs |-> [key |-> <<>>, secret |-> <<>>]]
    /\ pc = "gate"
    /\ branch = [env \in Envs |-> "idle"]
    /\ result = [env \in Envs |-> UndefinedValue]
    /\ errorLogged = [env \in Envs |-> FALSE]
    /\ settled = <<>>
    /\ images = <<>>
    /\ body = NoBody
    /\ relatedPulls = <<>>
    /\ prs = <<>>
    /\ comments = <<>>
    /\ failed = NotCalled
    /\ output = NotCalled
    /\ \E env \in Envs, image \in GateImages, release \in GateReleases :
          gate = [phase |-> "input",
                  env |-> env,
                  image |-> image,
                  releaseVersion |-> release,
                  currentImageTag |-> <<>>,
                  tagAsBuild |-> <<>>,
                  result |-> UndefinedValue]
    /\ earlierRun = NoEarlierRun

GateNext == GateEvaluate

GateSpec == GateInit /\ [][GateNext]_vars

\* ------------------------------------------------------------------------
\* Properties of run and deploymentFeedback (under Spec)
\* ------------------------------------------------------------------------

\* The top-level inputs are well formed: "owner/repo", a token, and the
\* credentials of every environment.
WellFormedInputs ==
    /\ Len(Split(repository, "/")) = 2
    /\ Truthy(Owner)
    /\ Truthy(RepoName)
    /\ Truthy(token)
    /\ \A env \in Envs : Truthy(creds[env].key) /\ Truthy(creds[env].secret)

\* deploymentFeedback has settled and run has gone on.
FeedbackSettled == pc \notin {"start", "awaitImages"}

ThrewEnvs == {env \in Envs : errorLogged[env]}

\* C1: with well-formed inputs, a lookup that threw never fails the run:
\* once the lookups have settled the summary is rendered, and setFailed is
\* not called (unless PR discovery itself failed).
C1_LookupFailureNeverFailsRun ==
    (WellFormedInputs /\ ThrewEnvs # {}) =>
        /\ FeedbackSettled => body.rendered
        /\ failed.called => failed.message = RequestErrorMessage

\* C2: an environment is looked up exactly when its key and its secret were
\* supplied and are not empty.
C2_ActiveIffCredentials ==
    pc # "start" =>
        \A env \in Envs :
            (branch[env] # "idle") <=> (Truthy(creds[env].key) /\ Truthy(creds[env].secret))

\* C3: the Report deploymentFeedback returns has one entry per active
\* environment and lists the environments in policy-table order (dev,
\* sandbox, production), whatever order the lookups completed in.
C3_ReportInTableOrder ==
    FeedbackSettled =>
        /\ Len(images) = Len(ActiveEnvs)
        /\ \A n \in 1..Len(images) :
              images[n] # UndefinedValue => images[n].env = ActiveEnvs[n]
        /\ \A m, n \in 1..Len(images) :
              (m < n /\ images[m] # UndefinedValue /\ images[n] # UndefinedValue)
                  => EnvIndex(images[m].env) < EnvIndex(images[n].env)

\* C3 witness: a Report of three results whose lookups completed in the
\* reverse of the table order.
C3_Witness ==
    /\ WellFormedInputs
    /\ FeedbackSettled
    /\ settled = <<"production", "sandbox", "dev">>
    /\ \A n \in 1..3 : images[n] # UndefinedValue

\* C4: the Report is returned only after every active environment's lookup
\* was issued and has settled, and when exactly one lookup threw, the Report
\* holds, at the place of each other environment, the gate result of that
\* environment for the tag its lookup returned.
C4_FailureIsolated ==
    FeedbackSettled =>
        /\ \A env \in Envs : IsActive(env) => branch[env] = "fulfilled"
        /\ Cardinality(ThrewEnvs) = 1 =>
              \A n \in 1..Len(ActiveEnvs) :
                 ~errorLogged[ActiveEnvs[n]] =>
                    /\ Len(images) >= n
                    /\ images[n] # UndefinedValue
                    /\ images[n] = result[ActiveEnvs[n]]
                    /\ images[n] = GateResult(ActiveEnvs[n],
                                              images[n].currentImageTag,
                                              releaseVersion)

\* C4 witness: the sandbox lookup threw before the other two completed, and
\* the Report holds the results of dev and production.
C4_Witness ==
    /\ WellFormedInputs
    /\ FeedbackSettled
    /\ ThrewEnvs = {"sandbox"}
    /\ settled[1] = "sandbox"
    /\ images[1] # UndefinedValue /\ images[1].env = "dev"
    /\ images[3] # UndefinedValue /\ images[3].env = "production"

\* ------------------------------------------------------------------------
\* Properties of the gate (under GateSpec)
\* ------------------------------------------------------------------------

GateEvaluated == gate.phase = "evaluated"

\* The candidate is a version, with or without a prerelease suffix, and
\* without build metadata.
IsCandidateVersion(release) == IsSemver(release) /\ IndexOf(release, "+") = 0

\* The major.minor.patch of a version, its prerelease suffix dropped.
CoreOf(release) == [SemVer(release) EXCEPT !.prerelease = <<>>]

\* The gate was applied under the policy of env to a current tag that is a
\* version and a candidate that is one.
GateCase(env) ==
    /\ GateEvaluated
    /\ gate.env = env
    /\ IsSemver(gate.currentImageTag)
    /\ IsCandidateVersion(gate.releaseVersion)

GateTag == SemVer(gate.currentImageTag)

RC1 == <<"-", "r", "c", "1">>

\* C5 as claimed: under ">=" (dev) a candidate semver-greater-or-equal to the
\* current tag gives true and a strictly lesser one false, the prerelease
\* suffix of the candidate counting as semver orders it.
C5_DevFollowsSemverOrder ==
    GateCase("dev") =>
        (gate.result.willBeReplaced
            <=> SemverCompare(SemVer(gate.releaseVersion), GateTag) >= 0)

\* C5 amended: under ">=" (dev) the candidate counts as its
\* major.minor.patch, a prerelease suffix being read as build metadata: at
\* or above the current tag gives true, below it gives false.
C5_DevFollowsCoreOrder ==
    GateCase("dev") =>
        (gate.result.willBeReplaced
            <=> SemverCompare(CoreOf(gate.releaseVersion), GateTag) >= 0)

\* C5 witness: 2.4.1-rc1 against a dev running 2.4.1 will replace it.
C5_Witness ==
    /\ GateCase("dev")
    /\ gate.currentImageTag = Version(2, 4, 1)
    /\ gate.releaseVersion = Version(2, 4, 1) \o RC1
    /\ gate.result.willBeReplaced

\* C6 as claimed: under "^" (sandbox) every candidate of the same major
\* gives true, lower ones and major 0 included, and every candidate of
\* another major gives false.
C6_SandboxSameMajor ==
    GateCase("sandbox") =>
        (gate.result.willBeReplaced
            <=> SemVer(gate.releaseVersion).major = GateTag.major)

\* C6 amended: under "^" (sandbox) a candidate gives true exactly when it
\* has the major of the current tag, its major.minor.patch is not below the
\* current tag and, for major 0, it has the same minor too (for 0.0.z the
\* same patch); a candidate of another major gives false.
C6_SandboxCaret ==
    GateCase("sandbox") =>
        LET c == CoreOf(gate.releaseVersion)
        IN  gate.result.willBeReplaced
              <=> /\ c.major = GateTag.major
                  /\ SemverCompare(c, GateTag) >= 0
                  /\ c.major = 0 => c.minor = GateTag.minor
                  /\ (c.major = 0 /\ c.minor = 0) => c.patch = GateTag.patch

\* C6 witness: a lower minor of the same major, and a higher minor under
\* major 0, do not replace.
C6_Witness ==
    /\ GateCase("sandbox")
    /\ ~gate.result.willBeReplaced
    /\ \/ /\ gate.currentImageTag = Version(2, 4, 1)
          /\ gate.releaseVersion = Version(2, 2, 0)
       \/ /\ gate.currentImageTag = Version(0, 1, 0)
          /\ gate.releaseVersion = Version(0, 2, 0)

\* C7 as claimed: under "~" (production) every candidate of the same major
\* and minor gives true, lower patches included, and every candidate of
\* another minor gives false.
C7_ProductionSameMinor ==
    GateCase("production") =>
        LET c == SemVer(gate.releaseVersion)
        IN  /\ (c.major = GateTag.major /\ c.minor = GateTag.minor)
                  => gate.result.willBeReplaced
            /\ c.minor # GateTag.minor => ~gate.result.willBeReplaced

\* C7 amended: under "~" (production) a candidate gives true exactly when
\* it has the major and minor of the current tag and its major.minor.patch
\* is not below the current tag; a candidate of another minor gives false.
C7_ProductionTilde ==
    GateCase("production") =>
        LET c == CoreOf(gate.releaseVersion)
        IN  gate.result.willBeReplaced
              <=> /\ c.major = GateTag.major
                  /\ c.minor = GateTag.minor
                  /\ SemverCompare(c, GateTag) >= 0

\* C7 witness: the scenarios 2.4.1 -> 2.4.2 (true) and 2.4.1 -> 2.5.0
\* (false), and a lower patch, which does not replace.
C7_Witness ==
    /\ GateCase("production")
    /\ gate.currentImageTag = Version(2, 4, 1)
    /\ \/ gate.releaseVersion = Version(2, 4, 2) /\ gate.result.willBeReplaced
       \/ gate.releaseVersion = Version(2, 5, 0) /\ ~gate.result.willBeReplaced
       \/ gate.releaseVersion = Version(2, 4, 0) /\ ~gate.result.willBeReplaced

\* The tag begins with the six characters of "latest".
HasLatestPrefix(tag) ==
    Len(tag) >= 6 /\ \A i \in 1..6 : tag[i] = Latest[i]

\* C8: a current tag beginning with "latest" gives willBeReplaced = true
\* under every policy and for every candidate, a candidate that is no
\* version included.
C8_LatestAlwaysReplaced ==
    (GateEvaluated /\ HasLatestPrefix(gate.currentImageTag))
        => gate.result.willBeReplaced

\* C8 witness: production running latest-foo, candidate "abc".
C8_Witness ==
    /\ GateEvaluated
    /\ gate.env = "production"
    /\ gate.currentImageTag = Latest \o <<"-", "f", "o", "o">>
    /\ gate.releaseVersion = <<"a", "b", "c">>
    /\ gate.result.willBeReplaced

\* C9: a current tag that is no version and does not begin with "latest",
\* a missing tag included, gives an ordinary gate result with
\* willBeReplaced = false under every policy and for every candidate.
C9_NonSemverNeverReplaced ==
    (/\ GateEvaluated
     /\ ~IsSemver(gate.currentImageTag)
     /\ ~HasLatestPrefix(gate.currentImageTag))
        => /\ gate.result # UndefinedValue
           /\ gate.result.env = gate.env
           /\ gate.result.currentImageTag = gate.currentImageTag
           /\ gate.result.releaseVersion = gate.releaseVersion
           /\ gate.result.willBeReplaced = FALSE

\* C9 witness: an image reference without a tag, and the tag abc123.
C9_Witness ==
    /\ GateEvaluated
    /\ gate.result # UndefinedValue
    /\ ~gate.result.willBeReplaced
    /\ \/ gate.image = <<"r">> /\ gate.currentImageTag = Undefined
       \/ gate.currentImageTag = <<"a", "b", "c", "1", "2", "3">>

\* C10: normalization rewrites the first '-' of the release version to '+'
\* and leaves every other character as it is, later '-' included; a release
\* version without '-' is returned unchanged, and 1.2.3-rc1 gives 1.2.3+rc1.
C10_NormalizeFirstDash ==
    GateEvaluated =>
        LET r == gate.releaseVersion
            t == gate.tagAsBuild
        IN  /\ Len(t) = Len(r)
            /\ (\A i \in 1..Len(r) : r[i] # "-") => t = r
            /\ \A i \in 1..Len(r) :
                  IF r[i] = "-" /\ \A j \in 1..(i - 1) : r[j] # "-"
                  THEN t[i] = "+"
                  ELSE t[i] = r[i]
            /\ r = Version(1, 2, 3) \o RC1
                  => t = Version(1, 2, 3) \o <<"+", "r", "c", "1">>

\* C10 witness: a release version with two '-' keeps the second.
C10_Witness ==
    /\ GateEvaluated
    /\ gate.releaseVersion = Version(1, 2, 3) \o <<"-", "r", "c", "0", "-", "x">>
    /\ gate.tagAsBuild = Version(1, 2, 3) \o <<"+", "r", "c", "0", "-", "x">>

\* ------------------------------------------------------------------------
\* Properties of PR discovery, commenting and the outcome of run (under Spec)
\* ------------------------------------------------------------------------

\* run has started the createComment calls of line 221.
CommentsStarted == pc \in {"awaitComments", "done"}

FailedComments == {n \in 1..Len(comments) : comments[n] = "failed"}

\* C11: a comment post is attempted on every pull request findPullRequest
\* returned, whichever posts fail; a failed post does not mark the run
\* failed, and once every post has settled the 'images' output is set.
C11_CommentFailuresIsolated ==
    /\ CommentsStarted =>
          /\ Len(comments) = Len(prs)
          /\ \A n \in 1..Len(prs) : comments[n] \in {"pending", "created", "failed"}
    /\ FailedComments # {} =>
          /\ CommentsStarted
          /\ ~failed.called
          /\ (\A n \in 1..Len(prs) : comments[n] # "pending")
                => (pc = "done" \/ ENABLED SetOutput)
          /\ pc = "done" => output.called

\* C11 witness: of two pull requests the post to the first failed, the post
\* to the second was made, and the output is set.
C11_Witness ==
    /\ pc = "done"
    /\ Len(prs) = 2
    /\ comments = <<"failed", "created">>
    /\ output.called
    /\ ~failed.called

\* PR discovery rejected: the request of line 151 threw and run's catch
\* reported its message.
DiscoveryFailed == failed.called /\ failed.message = RequestErrorMessage /\ comments = <<>>

\* C12: with well-formed top-level inputs, a failure of the PR discovery
\* request does not mark the run failed, and the Report already computed is
\* still published as the 'images' output.
C12_DiscoveryFailureNotFatal ==
    (WellFormedInputs /\ images # <<>> /\ body # NoBody)
        => /\ ~DiscoveryFailed
           /\ (pc \in {"done", "failed"} => output.called)

\* C13: no element of the Report with willBeReplaced = true belongs to an
\* environment whose lookup threw, whatever the other branches returned; the
\* callback of such an environment contributed the value undefined.
C13_FailedLookupNeverPromotable ==
    FeedbackSettled =>
        \A n \in 1..Len(images) :
            /\ errorLogged[ActiveEnvs[n]] => images[n] = UndefinedValue
            /\ (images[n] # UndefinedValue /\ images[n].willBeReplaced)
                  => ~errorLogged[images[n].env]

\* C13 witness: the lookup of dev threw while sandbox returned an image that
\* will be replaced.
C13_Witness ==
    /\ FeedbackSettled
    /\ Len(images) = 3
    /\ errorLogged["dev"]
    /\ images[1] = UndefinedValue
    /\ images[2] # UndefinedValue
    /\ images[2].env = "sandbox"
    /\ images[2].willBeReplaced

\* A callback of this run has returned for the environment, the tag and the
\* release version of the gate result kept from the earlier run.
SameGateInputs(env) ==
    /\ earlierRun.kept
    /\ env \in ReturnedEnvs
    /\ env = earlierRun.env
    /\ result[env].currentImageTag = earlierRun.currentImageTag
    /\ releaseVersion = earlierRun.releaseVersion

GateRangeCheck ==
    /\ IsSemver(gate.currentImageTag)
    /\ Satisfies(Normalize(gate.releaseVersion),
                 ENV_VERSION_COMPARATOR(gate.env) \o gate.currentImageTag)

\* C15: for every input, willBeReplaced is the disjunction of the range check
\* (the current tag is a version and the normalized candidate satisfies
\* comparator + current tag) and of the current tag beginning with "latest";
\* the if / else-if of the code never gives another value, and a false range
\* check does not keep the latest check from deciding.
C15_GateIsDisjunction ==
    GateEvaluated =>
        /\ gate.result.willBeReplaced
              <=> (GateRangeCheck \/ HasLatestPrefix(gate.currentImageTag))
        /\ (~GateRangeCheck /\ HasLatestPrefix(gate.currentImageTag))
              => gate.result.willBeReplaced

\* C15 witness: sandbox running latest, candidate 1.2.3: the range check is
\* false and the latest check decides.
C15_Witness ==
    /\ GateEvaluated
    /\ gate.env = "sandbox"
    /\ gate.currentImageTag = Latest
    /\ gate.releaseVersion = Version(1, 2, 3)
    /\ ~GateRangeCheck
    /\ gate.result.willBeReplaced

HasColon(image) == IndexOf(image, ":") # 0

\* C16: the tag is everything that follows the first ':' of the image
\* reference, also when the reference holds more than one ':', as behind a
\* registry host with a port.
C16_TagIsRemainder ==
    (GateEvaluated /\ HasColon(gate.image))
        => gate.currentImageTag = RemainderAfterFirstColon(gate.image)

\* ------------------------------------------------------------------------
\* Which pull requests are commented, termination and outcomes (under Spec)
\* ------------------------------------------------------------------------

\* The places of comments that are posts to the pull request numbered number.
PostsTo(number) == {n \in 1..Len(comments) : prs[n].number = number}

Matches(pr) == pr.state = "open" /\ pr.base.ref = "main"

\* C17: once PR discovery has returned, each pull request of the response
\* that is open and targets "main" has exactly one comment post, a closed one
\* or one against another base has none; when none matches no comment is
\* posted and the run goes on to set its output. Before discovery has
\* returned there is no post at all.
C17_CommentsExactlyOnMainPrs ==
    /\ CommentsStarted =>
          /\ Len(comments) = Len(prs)
          /\ \A i \in 1..Len(relatedPulls) :
                Cardinality(PostsTo(relatedPulls[i].number))
                    = IF Matches(relatedPulls[i]) THEN 1 ELSE 0
          /\ (\A i \in 1..Len(relatedPulls) : ~Matches(relatedPulls[i]))
                => /\ comments = <<>>
                   /\ ~failed.called
                   /\ (pc = "done" /\ output.called) \/ ENABLED SetOutput
    /\ ~CommentsStarted => comments = <<>>

\* C17 witness: of an open pull request against main and an open one against
\* develop, only the first was commented, and the run completed.
C17_Witness ==
    /\ pc = "done"
    /\ Len(relatedPulls) = 2
    /\ Matches(relatedPulls[1])
    /\ relatedPulls[2].state = "open"
    /\ relatedPulls[2].base.ref = "develop"
    /\ Len(prs) = 1
    /\ prs[1].number = 1
    /\ comments = <<"created">>

\* The environments whose lookup has been issued and has not settled.
PendingEnvs == {env \in Envs : branch[env] \in {"describeServices", "describeTask"}}

Terminated == pc \in {"done", "failed"}

\* While a lookup is pending the run waits at line 190: no Report, no
\* summary, no PR discovery, no output and no failure; and the Report, once
\* there, was assembled with every active branch settled.
ReportWaitsForAllBranches ==
    /\ PendingEnvs # {} =>
          /\ pc = "awaitImages"
          /\ images = <<>>
          /\ body = NoBody
          /\ ~output.called
          /\ ~failed.called
    /\ FeedbackSettled =>
          /\ PendingEnvs = {}
          /\ \A env \in Envs :
                IsActive(env) => \E n \in 1..Len(settled) : settled[n] = env

\* C18 (under LiveSpec, where every external call issued eventually returns
\* or fails): the run eventually terminates; the Report is assembled only
\* after every per-environment branch has settled, and as long as one lookup
\* has not returned there is no Report, no output and no failure.
C18_TerminatesAfterAllSettle ==
    /\ []ReportWaitsForAllBranches
    /\ <>Terminated

\* C18 witness: two lookups have settled, the third has not returned, and
\* the run is still waiting without a Report.
C18_Witness ==
    /\ Cardinality(PendingEnvs) = 1
    /\ Len(settled) = 2
    /\ pc = "awaitImages"
    /\ images = <<>>
    /\ ~output.called
    /\ ~failed.called

\* Some step of the run can be taken: a response arrives or a continuation
\* resumes.
RunCanStep ==
    ENABLED (Resume \/ DiscoveryResponse \/ CommentResponse \/ LookupResponse)

\* C19: a run that has ended has set the 'images' output or was marked
\* failed, never both and never neither; the output is set only with every
\* lookup, PR discovery and every comment attempt settled; a run that has not
\* ended has neither and can take a step; and after setFailed no step is
\* left, so the output is never set.
C19_ExactlyOneOutcome ==
    /\ ~(output.called /\ failed.called)
    /\ pc = "done" <=> output.called
    /\ pc = "failed" <=> failed.called
    /\ output.called =>
          /\ PendingEnvs = {}
          /\ \A env \in Envs : IsActive(env) => branch[env] = "fulfilled"
          /\ Len(comments) = Len(prs)
          /\ AllCommentsSettled
          /\ output.value = JsonStringify(images)
    /\ Terminated <=> ~RunCanStep

\* C19 witness: PR discovery returned two pull requests, both comment
\* attempts have settled, and the run ended with the output set.
C19_Witness ==
    /\ pc = "done"
    /\ Len(prs) = 2
    /\ comments = <<"created", "created">>
    /\ output.called
    /\ output.value = JsonStringify(images)
    /\ ~failed.called

=============================================================================
